---- MODULE Spec2Model ----
(***************************************************************************)
(* Model of the stress-test escalation runner, src/stress-test.js          *)
(* (runStressTest): the login bootstrap, the per-endpoint walk over the    *)
(* connection ladder with its degradation detector and stopping rules,     *)
(* the endpoint summary, and the system-wide analysis.                     *)
(*                                                                         *)
(* Numbers: throughput and latency are integers; errorRate is kept as the  *)
(* exact fraction <<errors, requests.total || 1>> and compared by cross    *)
(* multiplication, which agrees with the double comparison on the values   *)
(* used here.  null is 0 (both falsy in JS; every ladder level is >= 10),  *)
(* -Infinity (Math.max of nothing) is -1, below every throughput.          *)
(***************************************************************************)
EXTENDS Integers, Sequences, FiniteSets, TLC

VARIABLES
    pc,                 \* position of runStressTest
    authToken,          \* let authToken (line 21)
    endpointsToTest,    \* the test queue (lines 24-100, 169)
    authEndpointsToTest,\* the authenticated endpoints (lines 103-136)
    loadResults,        \* the results the load engine may report in this run
    epIdx,              \* position of the outer for-of (line 178)
    connectionLevels,   \* the endpoint's filtered ladder (line 186)
    levelIdx,           \* position of the inner for-of (line 195)
    endpointResults,    \* line 188
    previousThroughput, \* line 189
    degradationPoint,   \* line 190
    errorRateThreshold, \* line 191
    latencyThreshold,   \* line 192
    inFlight,           \* autocannon instances started and not yet done
    endpointSummaries,  \* line 152
    report,             \* what the final analysis prints (lines 359-428)
    err,                \* the error that rejected runStressTest (line 443)
    exitCode,           \* process.exit code of the catch handler (line 445)
    spc,                \* position of runAllTests (simple-verify-load-test.js)
    config,             \* config.validation (utils/config.js lines 18-23)
    testIdx,            \* position of the for-of over tests (line 56)
    suiteResults,       \* const results (line 53)
    testsAuthToken,     \* let authToken of utils/tests.js (line 9)
    validations,        \* the outcomes validateEndpoint has returned so far
    loads,              \* the tests the load engine was started for
    timeoutErrors,      \* let timeoutErrors of utils/runner.js (line 10)
    tracked,            \* the last call of trackRateLimiting and its answer
    hits,               \* requests the server's apiLimiter counted in the window
    served,             \* the last request the server answered, and how
    fetch,              \* a call of retryFetch: retries left, attempts, outcome
    cpc,                \* position of checkServer (test-endpoints.js)
    checkIdx,           \* position of the for-of over ENDPOINTS (line 263)
    checkResults        \* const results of checkServer (line 260)

stressVars == <<pc, authToken, endpointsToTest, authEndpointsToTest,
                loadResults, epIdx, connectionLevels, levelIdx,
                endpointResults, previousThroughput, degradationPoint,
                errorRateThreshold, latencyThreshold, inFlight,
                endpointSummaries, report, err, exitCode>>

simpleVars == <<spc, config, testIdx, suiteResults, testsAuthToken,
                validations, loads, timeoutErrors, tracked>>

serverVars == <<hits, served>>

fetchVars == <<fetch>>

checkVars == <<cpc, checkIdx, checkResults>>

vars == <<stressVars, simpleVars, serverVars, fetchVars, checkVars>>

\* What a step of one program leaves alone.
nonStressVars == <<simpleVars, serverVars, fetchVars, checkVars>>
nonSimpleVars == <<stressVars, serverVars, fetchVars, checkVars>>
nonServerVars == <<stressVars, simpleVars, fetchVars, checkVars>>
nonFetchVars == <<stressVars, simpleVars, serverVars, checkVars>>
nonCheckVars == <<stressVars, simpleVars, serverVars, fetchVars>>

walkVars == <<connectionLevels, levelIdx, endpointResults, previousThroughput,
              degradationPoint, errorRateThreshold, latencyThreshold>>

----------------------------------------------------------------------------
(* Values *)

Null == 0
NegInfinity == -1

\* Bounds of the model.
DeepLadder == 5        \* ladder levels of the endpoint of the deep scenario
SweepEndpoints == 2    \* unauthenticated endpoints of the sweep scenario
LiveLadder == 3        \* ladder levels of the endpoint of the fair scenario

baseConnectionLevels ==
    <<10, 25, 50, 100, 250, 500, 1000, 2000, 5000, 7500, 10000, 15000, 20000>>

\* A path is kept as its segments, so that String.includes of a workload
\* marker is membership of the marker among the segments.
Endpoint(n, p, m) == [name |-> n, path |-> p, maxConnections |-> m]

\* The eight unauthenticated endpoints, in source order; maxConnections is
\* set by the scenario.
Catalogue(m) ==
    << Endpoint("Health Check", <<"health">>, m),
       Endpoint("Products Listing", <<"api", "products">>, m),
       Endpoint("Single Product", <<"api", "products", "1">>, m),
       Endpoint("Database Operations", <<"api", "db-intensive", "queries=10">>, m),
       Endpoint("CPU Intensive (Low)", <<"api", "cpu-intensive", "workload=50">>, m),
       Endpoint("CPU Intensive (High)", <<"api", "cpu-intensive", "workload=300">>, m),
       Endpoint("Memory Intensive", <<"api", "memory-intensive", "size=1">>, m),
       Endpoint("External API Call", <<"api", "weather", "London">>, m) >>

authEndpoint(m) == Endpoint("Authentication", <<"api", "login">>, m)

AuthEndpoints(m1, m2) ==
    << Endpoint("User Profile", <<"api", "profile">>, m1),
       Endpoint("Checkout Process", <<"api", "checkout">>, m2) >>

\* One result of the load engine: throughput.average, latency.average,
\* errors, requests.total.
Result(t, l, e, n) == [throughput |-> t, latency |-> l, errors |-> e, total |-> n]

FineResults ==
    { Result(t, l, e[1], e[2]) :
        t \in {0, 80, 100}, l \in {1000, 3000, 3001},
        e \in {<<5, 100>>, <<10, 100>>, <<11, 100>>} }

CoarseResults ==
    { Result(100, 1000, 0, 0), Result(50, 1000, 5, 100),
      Result(80, 3000, 10, 100), Result(0, 3001, 11, 100) }

\* Results of a target that is partly or wholly down: errors without any
\* completed request, and more errors than completed requests.
OutageResults ==
    { Result(100, 1000, 0, 0), Result(0, 1000, 5, 0), Result(10, 1000, 3, 2),
      Result(50, 1000, 2, 100) }

\* The runs explored: one endpoint walked over a long ladder with every
\* combination of results, sweeps over short ladders, a target that is
\* down, and a queue whose ladders are all empty.
Scenarios ==
    { [ queue |-> <<authEndpoint(baseConnectionLevels[DeepLadder])>>,
        auth |-> AuthEndpoints(5, 5),
        results |-> FineResults ] }
    \cup
    { [ queue |-> <<authEndpoint(10)>>
                    \o SubSeq(Catalogue(25), s, s + SweepEndpoints - 1),
        auth |-> AuthEndpoints(10, 5),
        results |-> CoarseResults ] :
        s \in 1..(Len(Catalogue(25)) - SweepEndpoints + 1) }
    \cup
    { [ queue |-> <<authEndpoint(25)>>,
        auth |-> AuthEndpoints(10, 5),
        results |-> OutageResults ],
      [ queue |-> <<authEndpoint(5)>>,
        auth |-> AuthEndpoints(5, 5),
        results |-> CoarseResults ] }

\* The programs that a specification does not run stay in these states.
NoTracked == [kind |-> "none", signal |-> FALSE, test |-> Null]

NoRequest ==
    [route |-> "none", header |-> <<>>, bodyParses |-> TRUE, limited |-> FALSE,
     status |-> Null, handlerRan |-> FALSE]

ServerOff == hits = 0 /\ served = NoRequest

NoFetch ==
    [status |-> "off", n |-> 0, retries |-> 0, attempts |-> <<>>,
     result |-> "none"]

FetchOff == fetch = NoFetch

CheckOff == cpc = "off" /\ checkIdx = 1 /\ checkResults = <<>>

----------------------------------------------------------------------------
(* Pure helpers of runStressTest *)

RECURSIVE FilterLevelsReversed(_, _)
\* Variant: the kept levels come out in descending order.
FilterLevelsReversed(levels, maxConnections) ==
    IF levels = <<>> THEN <<>>
    ELSE IF Head(levels) <= maxConnections
         THEN FilterLevelsReversed(Tail(levels), maxConnections) \o <<Head(levels)>>
         ELSE FilterLevelsReversed(Tail(levels), maxConnections)

\* Variant: the ladder is not capped by maxConnections.
FilterLevelsNoCap(levels, maxConnections) == levels

\* Variant: the smallest level is tested even when no level fits.
FilterLevelsAtLeastOne(levels, maxConnections) ==
    IF FilterLevelsReversed(levels, maxConnections) = <<>>
    THEN <<Head(levels)>>
    ELSE LET r == FilterLevelsReversed(levels, maxConnections)
         IN  [i \in 1..Len(r) |-> r[Len(r) + 1 - i]]

RECURSIVE FilterLevels(_, _)
FilterLevels(levels, maxConnections) ==
    IF levels = <<>> THEN <<>>
    ELSE IF Head(levels) <= maxConnections
         THEN <<Head(levels)>> \o FilterLevels(Tail(levels), maxConnections)
         ELSE FilterLevels(Tail(levels), maxConnections)

\* errorRate = result.errors / (result.requests.total || 1)
ErrorRate(result) ==
    <<result.errors, IF result.total = 0 THEN 1 ELSE result.total>>

\* rate > pct / 100
RateAbove(rate, pct) == rate[1] * 100 > pct * rate[2]

Sample(connections, result) ==
    [ connections |-> connections,
      throughput |-> result.throughput,
      latency |-> result.latency,
      errorRate |-> ErrorRate(result),
      errors |-> result.errors ]

\* Variant: any drop of throughput counts.
throughputDegradationAnyDrop(prev, cur) == prev > 0 /\ cur < prev

\* previousThroughput > 0 && currentThroughput < previousThroughput * 0.8
throughputDegradation(prev, cur) == prev > 0 /\ cur * 10 < prev * 8

highErrorRate(errorRate) == RateAbove(errorRate, 5)

\* Variant: the degradation limit lies above the hard-stop limit.
highLatencyAboveStop(avgLatency) == avgLatency > 5000

highLatency(avgLatency) == avgLatency > 1000

Degraded(prev, s) ==
    \/ throughputDegradation(prev, s.throughput)
    \/ highErrorRate(s.errorRate)
    \/ highLatency(s.latency)

\* Variant: without the inner if, a later degrading sample overwrites.
MarkDegradationOverwrite(dp, cond, connections) ==
    IF cond THEN connections ELSE dp

\* if (cond) { if (!degradationPoint) degradationPoint = connections }
MarkDegradation(dp, cond, connections) ==
    IF cond /\ dp = Null THEN connections ELSE dp

ErrorRateStop(flag, errorRate) ==
    IF RateAbove(errorRate, 10) THEN TRUE ELSE flag

\* Variant: the boundary value 3000 already stops.
LatencyStopInclusive(flag, avgLatency) ==
    IF avgLatency >= 3000 THEN TRUE ELSE flag

LatencyStop(flag, avgLatency) ==
    IF avgLatency > 3000 THEN TRUE ELSE flag

\* Variant: the level 2 * degradationPoint itself is skipped.
SkipAheadInclusive(dp, connections) == dp # Null /\ connections >= dp * 2

\* degradationPoint && connections > degradationPoint * 2
SkipAhead(dp, connections) == dp # Null /\ connections > dp * 2

\* Variant: the error-rate flag is not consulted.
HardStopLatencyOnly(e, l) == l

\* errorRateThreshold || latencyThreshold
HardStop(e, l) == e \/ l

Skips(dp, e, l, connections) == SkipAhead(dp, connections) \/ HardStop(e, l)

----------------------------------------------------------------------------
(* Endpoint summary (lines 306-320) *)

RECURSIVE MaxOf(_)
\* Math.max(...xs); -Infinity for no argument
MaxOf(xs) ==
    IF xs = <<>> THEN NegInfinity
    ELSE LET m == MaxOf(Tail(xs)) IN IF Head(xs) > m THEN Head(xs) ELSE m

Throughputs(results) == [i \in 1..Len(results) |-> results[i].throughput]

MaxThroughput(results) == MaxOf(Throughputs(results))

RECURSIVE FindLast(_, _)
\* Variant: the last match instead of the first.
FindLast(results, t) ==
    IF results = <<>> THEN <<>>
    ELSE IF FindLast(Tail(results), t) # <<>> THEN FindLast(Tail(results), t)
         ELSE IF Head(results).throughput = t THEN <<Head(results)>> ELSE <<>>

RECURSIVE Find(_, _)
\* results.find(r => r.throughput === t): <<r>> for the first match, <<>> for undefined
Find(results, t) ==
    IF results = <<>> THEN <<>>
    ELSE IF Head(results).throughput = t THEN <<Head(results)>>
         ELSE Find(Tail(results), t)

OptimalConnectionPoint(results) == Find(results, MaxThroughput(results))

EndpointSummary(endpoint, dp, results) ==
    [ name |-> endpoint.name,
      path |-> endpoint.path,
      degradationPoint |-> dp,
      optimalConnections |->
          IF OptimalConnectionPoint(results) # <<>>
          THEN OptimalConnectionPoint(results)[1].connections ELSE Null,
      maxThroughput |-> MaxThroughput(results),
      resultsCount |-> Len(results),
      results |-> results ]

----------------------------------------------------------------------------
(* System analysis (lines 359-428) *)

RECURSIVE SelectDegraded(_)
\* endpointSummaries.filter(e => e.degradationPoint)
SelectDegraded(summaries) ==
    IF summaries = <<>> THEN <<>>
    ELSE IF Head(summaries).degradationPoint # Null
         THEN <<Head(summaries)>> \o SelectDegraded(Tail(summaries))
         ELSE SelectDegraded(Tail(summaries))

\* Variant: the comparison is reversed.
Higher(prev, current) ==
    IF prev.degradationPoint > current.degradationPoint THEN prev ELSE current

\* Variant: on a tie the earlier endpoint is kept.
LowerOrEqual(prev, current) ==
    IF prev.degradationPoint <= current.degradationPoint THEN prev ELSE current

\* (prev, current) => prev.degradationPoint < current.degradationPoint ? prev : current
Lower(prev, current) ==
    IF prev.degradationPoint < current.degradationPoint THEN prev ELSE current

RECURSIVE Reduce(_, _)
\* array.reduce(Lower) continued from the accumulator acc
Reduce(acc, rest) ==
    IF rest = <<>> THEN acc ELSE Reduce(Lower(acc, Head(rest)), Tail(rest))

\* <<bottleneckEndpoint>> when some endpoint degraded, <<>> otherwise
Bottleneck(summaries) ==
    LET d == SelectDegraded(summaries)
    IN  IF Len(d) > 0 THEN <<Reduce(Head(d), Tail(d))>> ELSE <<>>

\* Variant: rounded to the nearest integer instead of down.
SafeLevelRounded(dp) == (dp * 7 + 5) \div 10

\* Math.floor(degradationPoint * 0.7)
SafeLevel(dp) == (dp * 7) \div 10

SystemLimit(summaries) ==
    IF Bottleneck(summaries) # <<>>
    THEN <<SafeLevel(Bottleneck(summaries)[1].degradationPoint)>> ELSE <<>>

\* Variant: the first sample of the endpoint instead of the last.
FirstConnections(e) ==
    IF Len(e.results) > 0 THEN e.results[1].connections ELSE 0

LastConnections(e) ==
    IF Len(e.results) > 0 THEN e.results[Len(e.results)].connections ELSE 0

\* printed only when no endpoint degraded (lines 378-388)
MaxTestedConnections(summaries) ==
    IF Bottleneck(summaries) = <<>>
    THEN <<MaxOf([i \in 1..Len(summaries) |-> LastConnections(summaries[i])])>>
    ELSE <<>>

RECURSIVE InsertAscending(_, _)
\* Variant: the comparator is a - b, the order ascending.
InsertAscending(e, sorted) ==
    IF sorted = <<>> THEN <<e>>
    ELSE IF e.maxThroughput < Head(sorted).maxThroughput
         THEN <<e>> \o sorted
         ELSE <<Head(sorted)>> \o InsertAscending(e, Tail(sorted))

RECURSIVE Insert(_, _)
\* e into a list sorted by descending maxThroughput, after its equals
Insert(e, sorted) ==
    IF sorted = <<>> THEN <<e>>
    ELSE IF e.maxThroughput > Head(sorted).maxThroughput
         THEN <<e>> \o sorted
         ELSE <<Head(sorted)>> \o Insert(e, Tail(sorted))

RECURSIVE SortByThroughput(_)
\* summaries.sort((a, b) => b.maxThroughput - a.maxThroughput), stable
SortByThroughput(summaries) ==
    IF summaries = <<>> THEN <<>>
    ELSE Insert(summaries[Len(summaries)],
                SortByThroughput(SubSeq(summaries, 1, Len(summaries) - 1)))

\* .slice(0, 3)
TopPerformers(sorted) ==
    SubSeq(sorted, 1, IF Len(sorted) < 3 THEN Len(sorted) ELSE 3)

\* path.includes(marker)
Includes(path, marker) == \E i \in 1..Len(path) : path[i] = marker

\* Variant: counted over all summaries, degraded or not.
CountBoundAll(summaries, marker) ==
    Cardinality({ i \in 1..Len(summaries) : Includes(summaries[i].path, marker) })

\* endpointsWithDegradation.filter(e => e.path.includes(marker)).length
CountBound(summaries, marker) ==
    Cardinality({ i \in 1..Len(SelectDegraded(summaries)) :
                    Includes(SelectDegraded(summaries)[i].path, marker) })

Advice(summaries, marker, text) ==
    IF CountBound(summaries, marker) > 0 THEN <<text>> ELSE <<>>

Recommendations(summaries) ==
    IF Len(SelectDegraded(summaries)) > 0
    THEN Advice(summaries, "cpu-intensive", "vertical scaling")
         \o Advice(summaries, "memory-intensive", "increase memory")
         \o Advice(summaries, "db-intensive", "database optimizations")
         \o Advice(summaries, "weather", "caching")
         \o <<"horizontal scaling">>
    ELSE <<"handling test load well">>

NoReport ==
    [ bottleneck |-> <<>>, systemLimit |-> <<>>, maxTestedConnections |-> <<>>,
      topPerformers |-> <<>>, recommendations |-> <<>> ]

SystemReport(summaries) ==
    [ bottleneck |-> Bottleneck(summaries),
      systemLimit |-> SystemLimit(summaries),
      maxTestedConnections |-> MaxTestedConnections(summaries),
      topPerformers |-> TopPerformers(SortByThroughput(summaries)),
      recommendations |-> Recommendations(summaries) ]

----------------------------------------------------------------------------
(* The run *)

Init ==
    /\ \E sc \in Scenarios :
          /\ endpointsToTest = sc.queue
          /\ authEndpointsToTest = sc.auth
          /\ loadResults = sc.results
    /\ pc = "login"
    /\ authToken = "null"
    /\ epIdx = 1
    /\ connectionLevels = <<>>
    /\ levelIdx = 1
    /\ endpointResults = <<>>
    /\ previousThroughput = 0
    /\ degradationPoint = Null
    /\ errorRateThreshold = FALSE
    /\ latencyThreshold = FALSE
    /\ inFlight = 0
    /\ endpointSummaries = <<>>
    /\ report = NoReport
    /\ err = <<>>
    /\ exitCode = 0
    /\ spc = "off"
    /\ config = [enabled |-> TRUE, skipOnFailure |-> FALSE, stopOnError |-> TRUE]
    /\ testIdx = 1
    /\ suiteResults = <<>>
    /\ testsAuthToken = "null"
    /\ validations = <<>>
    /\ loads = <<>>
    /\ timeoutErrors = 0
    /\ tracked = NoTracked
    /\ ServerOff
    /\ FetchOff
    /\ CheckOff

\* Variant: the authenticated endpoints join the queue whatever the login
\* gave.
LoginAlwaysAdds ==
    /\ pc = "login"
    /\ \E outcome \in {"ok", "notOk", "threw"} :
          /\ authToken' = IF outcome = "ok" THEN "token" ELSE authToken
          /\ endpointsToTest' = endpointsToTest \o authEndpointsToTest
    /\ pc' = "endpoint"
    /\ UNCHANGED <<authEndpointsToTest, loadResults, epIdx, walkVars, inFlight,
                   endpointSummaries, report, err, exitCode>>
    /\ UNCHANGED nonStressVars

\* Lines 154-175: one login request; the authenticated endpoints join the
\* queue only when the response is ok.
Login ==
    /\ pc = "login"
    /\ \E outcome \in {"ok", "notOk", "threw"} :
          IF outcome = "ok"
          THEN /\ authToken' = "token"
               /\ endpointsToTest' = endpointsToTest \o authEndpointsToTest
          ELSE UNCHANGED <<authToken, endpointsToTest>>
    /\ pc' = "endpoint"
    /\ UNCHANGED <<authEndpointsToTest, loadResults, epIdx, walkVars, inFlight,
                   endpointSummaries, report, err, exitCode>>
    /\ UNCHANGED nonStressVars

\* Variant: the escalation state is declared outside the loop and survives
\* from one endpoint to the next.
NextEndpointKeepsState ==
    /\ pc = "endpoint"
    /\ epIdx <= Len(endpointsToTest)
    /\ connectionLevels' =
          FilterLevels(baseConnectionLevels, endpointsToTest[epIdx].maxConnections)
    /\ levelIdx' = 1
    /\ endpointResults' = <<>>
    /\ pc' = "level"
    /\ UNCHANGED <<authToken, endpointsToTest, authEndpointsToTest, loadResults,
                   epIdx, previousThroughput, degradationPoint,
                   errorRateThreshold, latencyThreshold, inFlight,
                   endpointSummaries, report, err, exitCode>>
    /\ UNCHANGED nonStressVars

\* Lines 178-192: the next endpoint of the queue, with fresh escalation state.
NextEndpoint ==
    /\ pc = "endpoint"
    /\ epIdx <= Len(endpointsToTest)
    /\ connectionLevels' =
          FilterLevels(baseConnectionLevels, endpointsToTest[epIdx].maxConnections)
    /\ levelIdx' = 1
    /\ endpointResults' = <<>>
    /\ previousThroughput' = 0
    /\ degradationPoint' = Null
    /\ errorRateThreshold' = FALSE
    /\ latencyThreshold' = FALSE
    /\ pc' = "level"
    /\ UNCHANGED <<authToken, endpointsToTest, authEndpointsToTest, loadResults,
                   epIdx, inFlight, endpointSummaries, report, err, exitCode>>
    /\ UNCHANGED nonStressVars

\* Variant: a skipped level forgets the throughput of the last sample.
SkipLevelResetsThroughput ==
    /\ pc = "level"
    /\ levelIdx <= Len(connectionLevels)
    /\ Skips(degradationPoint, errorRateThreshold, latencyThreshold,
             connectionLevels[levelIdx])
    /\ levelIdx' = levelIdx + 1
    /\ previousThroughput' = 0
    /\ UNCHANGED <<pc, authToken, endpointsToTest, authEndpointsToTest,
                   loadResults, epIdx, connectionLevels, endpointResults,
                   degradationPoint, errorRateThreshold, latencyThreshold,
                   inFlight, endpointSummaries, report, err, exitCode>>
    /\ UNCHANGED nonStressVars

\* Variant: a skipped level is looked at again instead of being passed.
SkipLevelStays ==
    /\ pc = "level"
    /\ levelIdx <= Len(connectionLevels)
    /\ Skips(degradationPoint, errorRateThreshold, latencyThreshold,
             connectionLevels[levelIdx])
    /\ UNCHANGED stressVars
    /\ UNCHANGED nonStressVars

\* Lines 195-204: a level skipped by the skip-ahead rule or a hard-stop flag.
SkipLevel ==
    /\ pc = "level"
    /\ levelIdx <= Len(connectionLevels)
    /\ Skips(degradationPoint, errorRateThreshold, latencyThreshold,
             connectionLevels[levelIdx])
    /\ levelIdx' = levelIdx + 1
    /\ UNCHANGED <<pc, authToken, endpointsToTest, authEndpointsToTest,
                   loadResults, epIdx, connectionLevels, endpointResults,
                   previousThroughput, degradationPoint, errorRateThreshold,
                   latencyThreshold, inFlight, endpointSummaries, report, err,
                   exitCode>>
    /\ UNCHANGED nonStressVars

\* Variant: the done signal is not awaited before the next level.
RunLevelNoAwait ==
    /\ pc = "level"
    /\ levelIdx <= Len(connectionLevels)
    /\ ~Skips(degradationPoint, errorRateThreshold, latencyThreshold,
              connectionLevels[levelIdx])
    /\ inFlight' = inFlight + 1
    /\ levelIdx' = levelIdx + 1
    /\ UNCHANGED <<pc, authToken, endpointsToTest, authEndpointsToTest,
                   loadResults, epIdx, connectionLevels, endpointResults,
                   previousThroughput, degradationPoint, errorRateThreshold,
                   latencyThreshold, endpointSummaries, report, err, exitCode>>
    /\ UNCHANGED nonStressVars

\* Lines 206-224: the load engine is started for the level.
RunLevel ==
    /\ pc = "level"
    /\ levelIdx <= Len(connectionLevels)
    /\ ~Skips(degradationPoint, errorRateThreshold, latencyThreshold,
              connectionLevels[levelIdx])
    /\ inFlight' = inFlight + 1
    /\ pc' = "awaiting"
    /\ UNCHANGED <<authToken, endpointsToTest, authEndpointsToTest, loadResults,
                   epIdx, walkVars, endpointSummaries, report, err, exitCode>>
    /\ UNCHANGED nonStressVars

\* Lines 213-228 have no try/catch: a throw of the load engine rejects the
\* promise of runStressTest.
LoadEngineThrows ==
    /\ pc = "level"
    /\ levelIdx <= Len(connectionLevels)
    /\ ~Skips(degradationPoint, errorRateThreshold, latencyThreshold,
              connectionLevels[levelIdx])
    /\ err' = <<epIdx, connectionLevels[levelIdx]>>
    /\ pc' = "rejected"
    /\ UNCHANGED <<authToken, endpointsToTest, authEndpointsToTest, loadResults,
                   epIdx, walkVars, inFlight, endpointSummaries, report,
                   exitCode>>
    /\ UNCHANGED nonStressVars

\* Lines 226-303: the done signal; the sample is stored and the detector run.
OnDone ==
    /\ pc = "awaiting"
    /\ \E result \in loadResults :
          LET connections == connectionLevels[levelIdx]
              s == Sample(connections, result)
          IN  /\ endpointResults' = Append(endpointResults, s)
              /\ degradationPoint' =
                    MarkDegradation(degradationPoint,
                                    Degraded(previousThroughput, s), connections)
              /\ errorRateThreshold' = ErrorRateStop(errorRateThreshold, s.errorRate)
              /\ latencyThreshold' = LatencyStop(latencyThreshold, s.latency)
              /\ previousThroughput' = s.throughput
    /\ inFlight' = inFlight - 1
    /\ levelIdx' = levelIdx + 1
    /\ pc' = "level"
    /\ UNCHANGED <<authToken, endpointsToTest, authEndpointsToTest, loadResults,
                   epIdx, connectionLevels, endpointSummaries, report, err,
                   exitCode>>
    /\ UNCHANGED nonStressVars

\* Lines 306-323: the ladder is exhausted; the summary is pushed.
FinishEndpoint ==
    /\ pc = "level"
    /\ levelIdx > Len(connectionLevels)
    /\ endpointSummaries' =
          Append(endpointSummaries,
                 EndpointSummary(endpointsToTest[epIdx], degradationPoint,
                                 endpointResults))
    /\ epIdx' = epIdx + 1
    /\ pc' = "endpoint"
    /\ UNCHANGED <<authToken, endpointsToTest, authEndpointsToTest, loadResults,
                   walkVars, inFlight, report, err, exitCode>>
    /\ UNCHANGED nonStressVars

\* Lines 359-430: the analysis over all summaries; the sort of line 393 is
\* in place.
Analyze ==
    /\ pc = "endpoint"
    /\ epIdx > Len(endpointsToTest)
    /\ report' = SystemReport(endpointSummaries)
    /\ endpointSummaries' = SortByThroughput(endpointSummaries)
    /\ pc' = "done"
    /\ UNCHANGED <<authToken, endpointsToTest, authEndpointsToTest, loadResults,
                   epIdx, walkVars, inFlight, err, exitCode>>
    /\ UNCHANGED nonStressVars

\* Lines 443-446: runStressTest().catch(err => process.exit(1))
CatchHandler ==
    /\ pc = "rejected"
    /\ exitCode' = 1
    /\ pc' = "exited"
    /\ UNCHANGED <<authToken, endpointsToTest, authEndpointsToTest, loadResults,
                   epIdx, walkVars, inFlight, endpointSummaries, report, err>>
    /\ UNCHANGED nonStressVars

Next ==
    \/ Login
    \/ NextEndpoint
    \/ SkipLevel
    \/ RunLevel
    \/ LoadEngineThrows
    \/ OnDone
    \/ FinishEndpoint
    \/ Analyze
    \/ CatchHandler

Spec == Init /\ [][Next]_vars

\* The run the termination of the sweep is checked on: a three-level ladder
\* against a target that may be down, then the authenticated endpoints.
LiveScenario ==
    [ queue |-> <<authEndpoint(baseConnectionLevels[LiveLadder])>>,
      auth |-> AuthEndpoints(10, 5),
      results |-> OutageResults ]

InitLive ==
    /\ endpointsToTest = LiveScenario.queue
    /\ authEndpointsToTest = LiveScenario.auth
    /\ loadResults = LiveScenario.results
    /\ pc = "login"
    /\ authToken = "null"
    /\ epIdx = 1
    /\ connectionLevels = <<>>
    /\ levelIdx = 1
    /\ endpointResults = <<>>
    /\ previousThroughput = 0
    /\ degradationPoint = Null
    /\ errorRateThreshold = FALSE
    /\ latencyThreshold = FALSE
    /\ inFlight = 0
    /\ endpointSummaries = <<>>
    /\ report = NoReport
    /\ err = <<>>
    /\ exitCode = 0
    /\ spc = "off"
    /\ config = [enabled |-> TRUE, skipOnFailure |-> FALSE, stopOnError |-> TRUE]
    /\ testIdx = 1
    /\ suiteResults = <<>>
    /\ testsAuthToken = "null"
    /\ validations = <<>>
    /\ loads = <<>>
    /\ timeoutErrors = 0
    /\ tracked = NoTracked
    /\ ServerOff
    /\ FetchOff
    /\ CheckOff

\* runStressTest is one async function: whenever a step of it can be taken,
\* the event loop takes one.
FairSpec == InitLive /\ [][Next]_vars /\ WF_vars(Next)

----------------------------------------------------------------------------
(* runAllTests of simple-verify-load-test.js, with runTest of utils/runner.js
   and validateEndpoint of utils/validation.js *)

SuitePrefix == 2       \* tests of the head of the list that the suite runs

Test(n, needsToken, setsToken) ==
    [name |-> n, skipIf |-> needsToken, setupFn |-> setsToken]

\* utils/tests.js: skipIf is () => !authToken, setupFn stores the token.
tests ==
    << Test("Health Check", FALSE, FALSE),
       Test("Login (Authentication)", FALSE, TRUE),
       Test("Get Products (Cached Data)", FALSE, FALSE),
       Test("Get Single Product", FALSE, FALSE),
       Test("Weather API (External API Call)", FALSE, FALSE),
       Test("Database Intensive Queries", FALSE, FALSE),
       Test("CPU Intensive (Medium Workload)", FALSE, FALSE),
       Test("Memory Intensive (Small)", FALSE, FALSE),
       Test("Memory Intensive (Large)", FALSE, FALSE),
       Test("User Profile (Authenticated)", TRUE, FALSE),
       Test("Checkout Process (Complex Logic)", TRUE, FALSE) >>

\* The suite of a run: the head of the list and the two authenticated tests
\* that close it.
Suite ==
    SubSeq(tests, 1, SuitePrefix) \o SubSeq(tests, Len(tests) - 1, Len(tests))

\* What validateEndpoint returns: success, a failure, or a failure with
\* connectionError; always success when validation is disabled.
ValidationResults(cfg) ==
    IF cfg.enabled THEN {"ok", "failed", "connectionError"} ELSE {"ok"}

Validation(i, stage, v) == [test |-> i, stage |-> stage, outcome |-> v]

\* Variant: a failed validation skips the test whatever skipOnFailure says.
SkipReasonStrict(cfg, v) ==
    IF v = "connectionError" THEN "connection_error"
    ELSE IF v = "failed" THEN "validation_failed"
    ELSE "none"

\* runTest's decision on its own validation result: the reason it resolves
\* a skip with, "none" when it goes on to the load test.
SkipReason(cfg, v) ==
    IF v = "connectionError"
    THEN IF cfg.skipOnFailure THEN "connection_error" ELSE "none"
    ELSE IF v = "failed" /\ cfg.skipOnFailure THEN "validation_failed"
    ELSE "none"

SkippedEntry(test, reason) ==
    [name |-> test.name, skipped |-> TRUE, reason |-> reason, result |-> FALSE]

ResultEntry(test) ==
    [name |-> test.name, skipped |-> FALSE, reason |-> "none", result |-> TRUE]

InitSimple ==
    /\ pc = "off"
    /\ authToken = "null"
    /\ endpointsToTest = <<>>
    /\ authEndpointsToTest = <<>>
    /\ loadResults = {}
    /\ epIdx = 1
    /\ connectionLevels = <<>>
    /\ levelIdx = 1
    /\ endpointResults = <<>>
    /\ previousThroughput = 0
    /\ degradationPoint = Null
    /\ errorRateThreshold = FALSE
    /\ latencyThreshold = FALSE
    /\ inFlight = 0
    /\ endpointSummaries = <<>>
    /\ report = NoReport
    /\ err = <<>>
    /\ exitCode = 0
    /\ spc = "start"
    /\ config \in [enabled : BOOLEAN, skipOnFailure : BOOLEAN,
                    stopOnError : {TRUE}]
    /\ testIdx = 1
    /\ suiteResults = <<>>
    /\ testsAuthToken = "null"
    /\ validations = <<>>
    /\ loads = <<>>
    /\ timeoutErrors = 0
    /\ tracked = NoTracked
    /\ ServerOff
    /\ FetchOff
    /\ CheckOff

\* Lines 41-46: the run ends with process.exit(1) when the server is down.
StartSimple ==
    /\ spc = "start"
    /\ \E isServerUp \in BOOLEAN :
          spc' = IF isServerUp THEN "loop" ELSE "exited"
    /\ UNCHANGED <<config, testIdx, suiteResults, testsAuthToken, validations,
                   loads>>
    /\ UNCHANGED <<timeoutErrors, tracked>>
    /\ UNCHANGED nonSimpleVars

\* Lines 56-78: the test is validated; a failure pushes a skipped entry and
\* continues with the next test.
Validate ==
    /\ spc = "loop"
    /\ testIdx <= Len(Suite)
    /\ \E v \in ValidationResults(config) :
          /\ validations' = Append(validations, Validation(testIdx, "runAllTests", v))
          /\ IF v # "ok"
             THEN /\ suiteResults' =
                        Append(suiteResults,
                               SkippedEntry(Suite[testIdx], "validation_failed"))
                  /\ testIdx' = testIdx + 1
                  /\ spc' = "loop"
             ELSE /\ spc' = "runTest"
                  /\ UNCHANGED <<suiteResults, testIdx>>
    /\ UNCHANGED <<config, testsAuthToken, loads>>
    /\ UNCHANGED <<timeoutErrors, tracked>>
    /\ UNCHANGED nonSimpleVars

\* Line 81 with runTest (utils/runner.js lines 60-124) up to the start of the
\* load engine, and lines 93-100 when runTest resolved a skip.
RunTest ==
    /\ spc = "runTest"
    /\ LET test == Suite[testIdx]
       IN  IF test.skipIf /\ testsAuthToken = "null"
           THEN /\ suiteResults' =
                      Append(suiteResults, SkippedEntry(test, "condition_not_met"))
                /\ testIdx' = testIdx + 1
                /\ spc' = "loop"
                /\ UNCHANGED <<validations, loads, timeoutErrors>>
           ELSE \E v \in (IF config.enabled THEN ValidationResults(config)
                                            ELSE {"none"}) :
                  /\ timeoutErrors' = 0
                  /\ validations' =
                        IF v = "none" THEN validations
                        ELSE Append(validations, Validation(testIdx, "runTest", v))
                  /\ IF SkipReason(config, v) # "none"
                     THEN /\ suiteResults' =
                                Append(suiteResults,
                                       SkippedEntry(test, SkipReason(config, v)))
                          /\ testIdx' = testIdx + 1
                          /\ spc' = "loop"
                          /\ UNCHANGED loads
                     ELSE /\ loads' = Append(loads, testIdx)
                          /\ spc' = "load"
                          /\ UNCHANGED <<suiteResults, testIdx>>
    /\ UNCHANGED <<config, testsAuthToken, tracked>>
    /\ UNCHANGED nonSimpleVars

\* utils/runner.js lines 134-143 and lines 82-92: the load engine is done,
\* runTest resolves its results and the entry is pushed. The setupFn of the
\* login test may have stored a token meanwhile.
LoadDone ==
    /\ spc = "load"
    /\ \E tokenObtained \in BOOLEAN :
          testsAuthToken' =
              IF Suite[testIdx].setupFn /\ tokenObtained THEN "token"
              ELSE testsAuthToken
    /\ suiteResults' = Append(suiteResults, ResultEntry(Suite[testIdx]))
    /\ testIdx' = testIdx + 1
    /\ spc' = "loop"
    /\ UNCHANGED <<config, validations, loads>>
    /\ UNCHANGED <<timeoutErrors, tracked>>
    /\ UNCHANGED nonSimpleVars

\* Nothing resolves runTest's promise when the load engine throws inside the
\* async executor (utils/runner.js lines 61, 107-132) or ends without a done
\* event (lines 127-129): the await of line 81 never returns.
LoadFails ==
    /\ spc = "load"
    /\ spc' = "hung"
    /\ UNCHANGED <<config, testIdx, suiteResults, testsAuthToken, validations,
                   loads, timeoutErrors, tracked>>
    /\ UNCHANGED nonSimpleVars

\* Lines 115-121: the loop is over; the results are saved and summarised.
FinishSimple ==
    /\ spc = "loop"
    /\ testIdx > Len(Suite)
    /\ spc' = "finished"
    /\ UNCHANGED <<config, testIdx, suiteResults, testsAuthToken, validations,
                   loads>>
    /\ UNCHANGED <<timeoutErrors, tracked>>
    /\ UNCHANGED nonSimpleVars

NextSimple ==
    \/ StartSimple
    \/ Validate
    \/ RunTest
    \/ LoadDone
    \/ LoadFails
    \/ FinishSimple

SpecSimple == InitSimple /\ [][NextSimple]_vars

----------------------------------------------------------------------------
(* trackRateLimiting of utils/runner.js, called for the responses of a load *)

maxTimeoutErrors == 100 \* config.errorThresholds.maxTimeoutErrors
MaxTracked == 101       \* timeout errors counted during one load

Timeouts == {"ETIMEDOUT", "ESOCKETTIMEDOUT"}

\* What a call is made for: an error with a code, or a response status.
Tracked == Timeouts \cup {"ECONNRESET", "status 429", "status 500", "status 200"}

\* Variant: the stop signal is given only above the threshold.
trackRateLimitingAbove(kind, count, cfg) ==
    IF kind \in Timeouts
    THEN [count |-> count + 1, signal |-> count + 1 > maxTimeoutErrors]
    ELSE IF kind = "status 429"
    THEN [count |-> count, signal |-> cfg.stopOnError]
    ELSE [count |-> count, signal |-> FALSE]

\* Lines 15-53: the new value of timeoutErrors and the value returned.
trackRateLimiting(kind, count, cfg) ==
    IF kind \in Timeouts
    THEN [count |-> count + 1, signal |-> count + 1 >= maxTimeoutErrors]
    ELSE IF kind = "status 429"
    THEN [count |-> count, signal |-> cfg.stopOnError]
    ELSE [count |-> count, signal |-> FALSE]

InitTrack ==
    /\ pc = "off"
    /\ authToken = "null"
    /\ endpointsToTest = <<>>
    /\ authEndpointsToTest = <<>>
    /\ loadResults = {}
    /\ epIdx = 1
    /\ connectionLevels = <<>>
    /\ levelIdx = 1
    /\ endpointResults = <<>>
    /\ previousThroughput = 0
    /\ degradationPoint = Null
    /\ errorRateThreshold = FALSE
    /\ latencyThreshold = FALSE
    /\ inFlight = 0
    /\ endpointSummaries = <<>>
    /\ report = NoReport
    /\ err = <<>>
    /\ exitCode = 0
    /\ spc = "start"
    /\ config \in [enabled : {FALSE}, skipOnFailure : {FALSE},
                    stopOnError : BOOLEAN]
    /\ testIdx = 1
    /\ suiteResults = <<>>
    /\ testsAuthToken = "null"
    /\ validations = <<>>
    /\ loads = <<>>
    /\ timeoutErrors = 0
    /\ tracked = NoTracked
    /\ ServerOff
    /\ FetchOff
    /\ CheckOff

\* onResponse of the load's requests (utils/runner.js line 121).
OnResponse ==
    /\ spc = "load"
    /\ timeoutErrors < MaxTracked
    /\ \E kind \in Tracked :
          LET t == trackRateLimiting(kind, timeoutErrors, config)
          IN  /\ timeoutErrors' = t.count
              /\ tracked' = [kind |-> kind, signal |-> t.signal, test |-> testIdx]
    /\ UNCHANGED <<spc, config, testIdx, suiteResults, testsAuthToken,
                   validations, loads>>
    /\ UNCHANGED nonSimpleVars

NextTrack ==
    \/ NextSimple
    \/ OnResponse

\* runAllTests with validation disabled, the calls of trackRateLimiting
\* during the loads included.
SpecTrack == InitTrack /\ [][NextTrack]_vars

----------------------------------------------------------------------------
(* The server of server/index.js: the middleware in front of the routes *)

RateLimitMax == 100    \* max of apiLimiter
MaxHits == 102         \* requests counted in one window of the limiter

Protected == {"GET /api/profile", "POST /api/upload", "POST /api/checkout"}

Routes == Protected \cup {"GET /health", "POST /api/login", "GET /api/products"}

\* app.use('/api', apiLimiter)
UnderApi(route) == route # "GET /health"

\* jwt.verify(token, JWT_SECRET) returns for a token signed with the secret
\* and not expired, and throws for any other.
Tokens == {"valid", "expired", "forged"}

Verifies(token) == token = "valid"

\* The authorization header as split(' ') sees it; <<>> is no header.
Headers ==
    {<<>>, <<"Bearer">>, <<"Bearer", "">>}
    \cup { <<scheme, t>> : scheme \in {"Bearer", "Basic"}, t \in Tokens }

\* authHeader && authHeader.split(' ')[1]; "" stands for every falsy value
TokenOf(header) == IF Len(header) >= 2 THEN header[2] ELSE ""

\* Variant: any token is let through without verification.
authenticateTokenNoVerify(header) ==
    IF TokenOf(header) = "" THEN [next |-> FALSE, status |-> 401]
    ELSE [next |-> TRUE, status |-> Null]

\* Lines 102-115: next() for a token that verifies, 401 without a token,
\* 403 when verification throws.
authenticateToken(header) ==
    IF TokenOf(header) = "" THEN [next |-> FALSE, status |-> 401]
    ELSE IF Verifies(TokenOf(header)) THEN [next |-> TRUE, status |-> Null]
    ELSE [next |-> FALSE, status |-> 403]

\* The statuses the handler of a route answers with.
HandlerStatuses(route) ==
    CASE route = "GET /api/profile" -> {200, 404}
      [] route = "POST /api/upload" -> {200, 400}
      [] route = "POST /api/checkout" -> {200, 400}
      [] route = "POST /api/login" -> {200, 400, 401}
      [] OTHER -> {200}

Response(route, header, bodyParses, limited, status, ran) ==
    [route |-> route, header |-> header, bodyParses |-> bodyParses,
     limited |-> limited, status |-> status, handlerRan |-> ran]

\* Lines 45-50 and the route: express.json() answers 400 to a body it
\* cannot parse, apiLimiter 429 to a request over the limit, then
\* authenticateToken on a protected route, then the handler.
Answer(route, header, bodyParses, count, handlerStatus) ==
    IF ~bodyParses
    THEN Response(route, header, bodyParses, FALSE, 400, FALSE)
    ELSE IF UnderApi(route) /\ count > RateLimitMax
    THEN Response(route, header, bodyParses, TRUE, 429, FALSE)
    ELSE IF route \in Protected /\ ~authenticateToken(header).next
    THEN Response(route, header, bodyParses, FALSE,
                  authenticateToken(header).status, FALSE)
    ELSE Response(route, header, bodyParses, FALSE, handlerStatus, TRUE)

InitServer ==
    /\ pc = "off"
    /\ authToken = "null"
    /\ endpointsToTest = <<>>
    /\ authEndpointsToTest = <<>>
    /\ loadResults = {}
    /\ epIdx = 1
    /\ connectionLevels = <<>>
    /\ levelIdx = 1
    /\ endpointResults = <<>>
    /\ previousThroughput = 0
    /\ degradationPoint = Null
    /\ errorRateThreshold = FALSE
    /\ latencyThreshold = FALSE
    /\ inFlight = 0
    /\ endpointSummaries = <<>>
    /\ report = NoReport
    /\ err = <<>>
    /\ exitCode = 0
    /\ spc = "off"
    /\ config = [enabled |-> TRUE, skipOnFailure |-> FALSE, stopOnError |-> TRUE]
    /\ testIdx = 1
    /\ suiteResults = <<>>
    /\ testsAuthToken = "null"
    /\ validations = <<>>
    /\ loads = <<>>
    /\ timeoutErrors = 0
    /\ tracked = NoTracked
    /\ ServerOff
    /\ FetchOff
    /\ CheckOff

\* One request, from the first middleware to the response.
Serve ==
    /\ hits < MaxHits
    /\ \E route \in Routes, header \in Headers, bodyParses \in BOOLEAN :
          LET count == IF bodyParses /\ UnderApi(route) THEN hits + 1 ELSE hits
          IN  /\ hits' = count
              /\ \E handlerStatus \in HandlerStatuses(route) :
                    served' = Answer(route, header, bodyParses, count, handlerStatus)
    /\ UNCHANGED nonServerVars

\* windowMs has passed: the limiter starts to count again.
WindowExpires ==
    /\ hits > 0
    /\ hits' = 0
    /\ UNCHANGED served
    /\ UNCHANGED nonServerVars

NextServer ==
    \/ Serve
    \/ WindowExpires

SpecServer == InitServer /\ [][NextServer]_vars

----------------------------------------------------------------------------
(* retryFetch of utils/validation.js *)

connectionRetries == 3 \* config.validation.connectionRetries, the default
MaxRetries == 3        \* largest retries argument of a call

\* What an attempt gives: axios resolves with a response or rejects with an
\* error (a status outside 2xx is an error too).
FetchResponses == {"response 200", "response 204"}

FetchErrors == {"ECONNREFUSED", "ETIMEDOUT", "status 500"}

InitFetch ==
    /\ pc = "off"
    /\ authToken = "null"
    /\ endpointsToTest = <<>>
    /\ authEndpointsToTest = <<>>
    /\ loadResults = {}
    /\ epIdx = 1
    /\ connectionLevels = <<>>
    /\ levelIdx = 1
    /\ endpointResults = <<>>
    /\ previousThroughput = 0
    /\ degradationPoint = Null
    /\ errorRateThreshold = FALSE
    /\ latencyThreshold = FALSE
    /\ inFlight = 0
    /\ endpointSummaries = <<>>
    /\ report = NoReport
    /\ err = <<>>
    /\ exitCode = 0
    /\ spc = "off"
    /\ config = [enabled |-> TRUE, skipOnFailure |-> FALSE, stopOnError |-> TRUE]
    /\ testIdx = 1
    /\ suiteResults = <<>>
    /\ testsAuthToken = "null"
    /\ validations = <<>>
    /\ loads = <<>>
    /\ timeoutErrors = 0
    /\ tracked = NoTracked
    /\ ServerOff
    /\ CheckOff
    /\ \E n \in (0..MaxRetries) \cup {connectionRetries} :
          fetch = [status |-> "calling", n |-> n, retries |-> n,
                   attempts |-> <<>>, result |-> "none"]

\* Lines 196-203: the request succeeds and its response is returned.
AttemptSucceeds ==
    /\ fetch.status = "calling"
    /\ \E r \in FetchResponses :
          fetch' = [fetch EXCEPT !.attempts = Append(@, r),
                                 !.status = "returned",
                                 !.result = r]
    /\ UNCHANGED nonFetchVars

\* Variant: the error is thrown only when retries is below zero.
AttemptFailsOneMore ==
    /\ fetch.status = "calling"
    /\ \E e \in FetchErrors :
          fetch' = IF fetch.retries < 0
                   THEN [fetch EXCEPT !.attempts = Append(@, e),
                                      !.status = "threw",
                                      !.result = e]
                   ELSE [fetch EXCEPT !.attempts = Append(@, e),
                                      !.retries = @ - 1]
    /\ UNCHANGED nonFetchVars

\* Lines 204-209: the request fails; the error is thrown when no retry is
\* left, otherwise retryFetch calls itself with one retry less.
AttemptFails ==
    /\ fetch.status = "calling"
    /\ \E e \in FetchErrors :
          fetch' = IF fetch.retries <= 0
                   THEN [fetch EXCEPT !.attempts = Append(@, e),
                                      !.status = "threw",
                                      !.result = e]
                   ELSE [fetch EXCEPT !.attempts = Append(@, e),
                                      !.retries = @ - 1]
    /\ UNCHANGED nonFetchVars

NextFetch ==
    \/ AttemptSucceeds
    \/ AttemptFails

SpecFetch == InitFetch /\ [][NextFetch]_vars

----------------------------------------------------------------------------
(* checkServer of test-endpoints.js *)

\* Lines 165-202, by name.
ENDPOINTS ==
    <<"Health Check", "Products List", "Single Product", "Weather API",
      "Authentication">>

\* Errors axios rejects with: code and message, the message as the phrases
\* it is made of.
ThrownErrors ==
    { [code |-> "ECONNREFUSED", message |-> <<"connect ECONNREFUSED">>],
      [code |-> "ETIMEDOUT", message |-> <<"connect ETIMEDOUT">>],
      [code |-> "ECONNABORTED", message |-> <<"timeout of 5000ms exceeded">>],
      [code |-> "ECONNRESET", message |-> <<"socket hang up">>],
      [code |-> "ERR_PROXY", message |-> <<"proxy:", "Connection refused">>] }

\* Lines 240-244
errorMessage(error) ==
    IF error.code = "ECONNREFUSED"
    THEN <<"Connection refused", "- server may not be running">>
    ELSE IF error.code = "ETIMEDOUT" THEN <<"Connection timed out">>
    ELSE error.message

\* What testEndpoint returns (lines 206-252); error <<>> is no error field,
\* code records the code of the error caught.
CheckResult(endpoint, success, error, code) ==
    [endpoint |-> endpoint, success |-> success, error |-> error, code |-> code]

TestEndpointResults(endpoint) ==
    { CheckResult(endpoint, TRUE, <<>>, "none"),
      CheckResult(endpoint, FALSE, <<"Unexpected status code">>, "none"),
      CheckResult(endpoint, FALSE, <<"Response validation failed">>, "none") }
    \cup { CheckResult(endpoint, FALSE, errorMessage(e), e.code) : e \in ThrownErrors }

\* Variant: only a refused connection ends the check.
StopsOnRefusedOnly(result) ==
    /\ result.error # <<>>
    /\ Includes(result.error, "Connection refused")

\* Lines 268-271
Stops(result) ==
    /\ result.error # <<>>
    /\ \/ Includes(result.error, "Connection refused")
       \/ Includes(result.error, "Connection timed out")

InitCheck ==
    /\ pc = "off"
    /\ authToken = "null"
    /\ endpointsToTest = <<>>
    /\ authEndpointsToTest = <<>>
    /\ loadResults = {}
    /\ epIdx = 1
    /\ connectionLevels = <<>>
    /\ levelIdx = 1
    /\ endpointResults = <<>>
    /\ previousThroughput = 0
    /\ degradationPoint = Null
    /\ errorRateThreshold = FALSE
    /\ latencyThreshold = FALSE
    /\ inFlight = 0
    /\ endpointSummaries = <<>>
    /\ report = NoReport
    /\ err = <<>>
    /\ exitCode = 0
    /\ spc = "off"
    /\ config = [enabled |-> TRUE, skipOnFailure |-> FALSE, stopOnError |-> TRUE]
    /\ testIdx = 1
    /\ suiteResults = <<>>
    /\ testsAuthToken = "null"
    /\ validations = <<>>
    /\ loads = <<>>
    /\ timeoutErrors = 0
    /\ tracked = NoTracked
    /\ ServerOff
    /\ FetchOff
    /\ cpc = "checking"
    /\ checkIdx = 1
    /\ checkResults = <<>>

\* Lines 263-274: one endpoint is tested and its result pushed; the loop
\* breaks on a result that tells of a failed connection.
TestEndpoint ==
    /\ cpc = "checking"
    /\ checkIdx <= Len(ENDPOINTS)
    /\ \E result \in TestEndpointResults(ENDPOINTS[checkIdx]) :
          /\ checkResults' = Append(checkResults, result)
          /\ IF Stops(result)
             THEN cpc' = "stopped" /\ UNCHANGED checkIdx
             ELSE checkIdx' = checkIdx + 1 /\ UNCHANGED cpc
    /\ UNCHANGED nonCheckVars

\* Lines 277-304: the summary is printed and the results are returned.
ReturnCheck ==
    /\ \/ cpc = "stopped"
       \/ cpc = "checking" /\ checkIdx > Len(ENDPOINTS)
    /\ cpc' = "returned"
    /\ UNCHANGED <<checkIdx, checkResults>>
    /\ UNCHANGED nonCheckVars

NextCheck ==
    \/ TestEndpoint
    \/ ReturnCheck

SpecCheck == InitCheck /\ [][NextCheck]_vars

----------------------------------------------------------------------------
(* Properties *)

InWalk == pc \in {"level", "awaiting"}

WalkEnded == pc = "level" /\ levelIdx > Len(connectionLevels)

\* The sample sequences to judge: the walk under way and every summary.
SampleSeqs ==
    {endpointResults}
        \cup { endpointSummaries[k].results : k \in 1..Len(endpointSummaries) }

\* errorRate > 0.10 and latency > 3000, read off a stored sample
OverErrorLimit(s) == s.errorRate[1] * 10 > s.errorRate[2]
OverLatencyLimit(s) == s.latency > 3000

\* C1: during one endpoint's walk, degradationPoint once set to D keeps the
\* value D over every later executed or skipped level: never overwritten,
\* never cleared.
C1_DegradationPointSticky ==
    [][(InWalk /\ degradationPoint # Null)
         => degradationPoint' = degradationPoint]_vars

\* A walk in which a sample after the degradation point degraded again and
\* a level was then skipped.
C1_Witness ==
    /\ WalkEnded
    /\ degradationPoint # Null
    /\ Len(endpointResults) < Len(connectionLevels)
    /\ \E i \in 2..Len(endpointResults) :
          /\ endpointResults[i].connections > degradationPoint
          /\ Degraded(endpointResults[i - 1].throughput, endpointResults[i])

\* The three conditions of the claim on the i-th sample of a sequence.
C2_Degrades(results, i) ==
    \/ /\ i > 1
       /\ results[i - 1].throughput > 0
       /\ results[i].throughput * 10 < results[i - 1].throughput * 8
    \/ results[i].errorRate[1] * 100 > 5 * results[i].errorRate[2]
    \/ results[i].latency > 1000

C2_FirstDegrading(results) ==
    LET D == { i \in 1..Len(results) : C2_Degrades(results, i) }
    IN  IF D = {} THEN Null
        ELSE results[CHOOSE i \in D : \A j \in D : i <= j].connections

\* C2: at the end of a walk degradationPoint is the connections of the first
\* executed sample with a throughput drop below 0.8 of its predecessor's
\* positive throughput, errorRate > 0.05 or latency > 1000, and null exactly
\* when there is none.
C2_DegradationPointIsFirstDegrading ==
    /\ WalkEnded => degradationPoint = C2_FirstDegrading(endpointResults)
    /\ \A k \in 1..Len(endpointSummaries) :
          endpointSummaries[k].degradationPoint
              = C2_FirstDegrading(endpointSummaries[k].results)

\* A finished walk whose degradation point, past the first level, comes from
\* the throughput drop alone, next to one of several samples and no
\* degradation.
C2_Witness ==
    /\ \E k \in 1..Len(endpointSummaries) :
          LET r == endpointSummaries[k].results
          IN  \E i \in 2..Len(r) :
                /\ endpointSummaries[k].degradationPoint = r[i].connections
                /\ r[i].latency <= 1000
                /\ r[i].errorRate[1] * 100 <= 5 * r[i].errorRate[2]
    /\ \E k \in 1..Len(endpointSummaries) :
          /\ endpointSummaries[k].degradationPoint = Null
          /\ Len(endpointSummaries[k].results) >= 2

\* C3: a sample with errorRate > 0.10 is never followed by a sample at a
\* strictly higher connections value, whatever throughput and latency are.
C3_NoSampleAboveErrorStop ==
    \A r \in SampleSeqs :
        \A i, j \in 1..Len(r) :
            OverErrorLimit(r[i]) => r[j].connections <= r[i].connections

\* A walk stopped by the error rate alone, a level within twice the
\* degradation point passed over.
C3_Witness ==
    /\ WalkEnded
    /\ Len(endpointResults) >= 2
    /\ Len(endpointResults) < Len(connectionLevels)
    /\ LET s == endpointResults[Len(endpointResults)]
       IN  /\ OverErrorLimit(s)
           /\ s.latency <= 1000
           /\ \E n \in 1..Len(connectionLevels) :
                 /\ connectionLevels[n] > s.connections
                 /\ connectionLevels[n] <= 2 * degradationPoint

\* C4: with degradationPoint = D no sample lies above 2*D, and every ladder
\* level L passed with D < L <= 2*D has its sample unless a hard stop
\* preceded it.
C4_SkipAheadBeyondTwiceD ==
    /\ degradationPoint # Null =>
          \A i \in 1..Len(endpointResults) :
              endpointResults[i].connections <= 2 * degradationPoint
    /\ \A k \in 1..Len(endpointSummaries) :
          endpointSummaries[k].degradationPoint # Null =>
              \A i \in 1..Len(endpointSummaries[k].results) :
                  endpointSummaries[k].results[i].connections
                      <= 2 * endpointSummaries[k].degradationPoint
    /\ InWalk /\ degradationPoint # Null =>
          \A n \in 1..(levelIdx - 1) :
              LET L == connectionLevels[n]
              IN  ( /\ degradationPoint < L
                    /\ L <= 2 * degradationPoint
                    /\ \A i \in 1..Len(endpointResults) :
                          endpointResults[i].connections < L
                              => /\ ~OverErrorLimit(endpointResults[i])
                                 /\ ~OverLatencyLimit(endpointResults[i]) )
                  => \E i \in 1..Len(endpointResults) :
                        endpointResults[i].connections = L

\* Ladder 10,25,50,100,...: throughput 100 then a drop at 25, level 50 run,
\* level 100 skipped without any hard stop.
C4_Witness ==
    /\ pc = "level"
    /\ degradationPoint = 25
    /\ ~errorRateThreshold /\ ~latencyThreshold
    /\ Len(endpointResults) = 3
    /\ endpointResults[1].throughput = 100
    /\ endpointResults[2].throughput * 10 < 100 * 8
    /\ endpointResults[3].connections = 50
    /\ levelIdx >= 5
    /\ connectionLevels[4] = 100

\* C5: a throw of the load engine at a level stops the walk, the summary of
\* that endpoint with exactly the samples collected before the failing level
\* is still produced, and no exception escapes the runner.
C5_FailureYieldsPartialSummary ==
    err # <<>> =>
        /\ pc \notin {"rejected", "exited"}
        /\ Len(endpointSummaries) >= err[1] =>
              /\ endpointSummaries[err[1]].results = endpointResults
              /\ \A i \in 1..Len(endpointResults) :
                    endpointResults[i].connections < err[2]

\* C6: a failure in one walk never aborts the sweep: when the run is over
\* every endpoint of the queue has its summary and the system report exists.
C6_SweepSurvivesFailure ==
    pc \in {"done", "exited"} =>
        /\ pc = "done"
        /\ Len(endpointSummaries) = Len(endpointsToTest)

\* C7: the samples of every endpoint are strictly ascending by connections.
C7_SamplesStrictlyAscending ==
    \A r \in SampleSeqs :
        \A i, j \in 1..Len(r) :
            i < j => r[i].connections < r[j].connections

\* A summary of at least three samples.
C7_Witness ==
    \E k \in 1..Len(endpointSummaries) :
        /\ Len(endpointSummaries[k].results) >= 3
        /\ endpointSummaries[k].resultsCount >= 3

\* C8: for a non-empty sample sequence maxThroughput is the maximum
\* throughput and optimalConnections the smallest connections among the
\* samples reaching it, ties and all-zero throughput included.
C8_OptimalIsSmallestAtMax ==
    \A k \in 1..Len(endpointSummaries) :
        LET e == endpointSummaries[k]
            r == e.results
        IN  Len(r) > 0 =>
              \E i \in 1..Len(r) :
                  /\ \A j \in 1..Len(r) : r[j].throughput <= r[i].throughput
                  /\ e.maxThroughput = r[i].throughput
                  /\ e.optimalConnections = r[i].connections
                  /\ \A j \in 1..Len(r) :
                        r[j].throughput = r[i].throughput
                            => r[i].connections <= r[j].connections

\* A summary of several samples that all have throughput 0.
C8_Witness ==
    \E k \in 1..Len(endpointSummaries) :
        LET r == endpointSummaries[k].results
        IN  /\ Len(r) >= 2
            /\ \A i \in 1..Len(r) : r[i].throughput = 0
            /\ endpointSummaries[k].optimalConnections = r[1].connections

C9_FlagsFollowSamples ==
    /\ latencyThreshold
          = (\E i \in 1..Len(endpointResults) : OverLatencyLimit(endpointResults[i]))
    /\ errorRateThreshold
          = (\E i \in 1..Len(endpointResults) : OverErrorLimit(endpointResults[i]))
    /\ (errorRateThreshold \/ latencyThreshold) => pc # "awaiting"
    /\ \A r \in SampleSeqs : \A i \in 1..(Len(r) - 1) :
          ~OverLatencyLimit(r[i]) /\ ~OverErrorLimit(r[i])

\* C9: latencyAvg > 3000 sets latencyThreshold and errorRate > 0.10 sets
\* errorRateThreshold; within a walk a flag never returns to false; under a
\* flag no level is run, so the sample that set it is the last of the walk.
C9_HardStopFlags ==
    /\ []C9_FlagsFollowSamples
    /\ [][InWalk =>
            /\ (latencyThreshold => latencyThreshold')
            /\ (errorRateThreshold => errorRateThreshold')]_vars

\* A walk stopped by the latency flag alone, a level within twice the
\* degradation point passed over.
C9_Witness ==
    /\ WalkEnded
    /\ latencyThreshold /\ ~errorRateThreshold
    /\ Len(endpointResults) >= 2
    /\ \E n \in 1..Len(connectionLevels) :
          /\ connectionLevels[n] > endpointResults[Len(endpointResults)].connections
          /\ connectionLevels[n] <= 2 * degradationPoint

C10_Degraded ==
    { k \in 1..Len(endpointSummaries) : endpointSummaries[k].degradationPoint # Null }

\* C10: the bottleneck is a summary whose degradationPoint is the minimum
\* over the summaries that have one, and it is reported exactly when some
\* summary has one.
C10_BottleneckIsMinimum ==
    pc = "done" =>
        /\ (report.bottleneck # <<>>) <=> (C10_Degraded # {})
        /\ C10_Degraded # {} =>
              \E k \in C10_Degraded :
                  /\ report.bottleneck = <<endpointSummaries[k]>>
                  /\ \A j \in C10_Degraded :
                        endpointSummaries[k].degradationPoint
                            <= endpointSummaries[j].degradationPoint

\* A report over summaries with different degradation points.
C10_Witness ==
    /\ pc = "done"
    /\ report.bottleneck # <<>>
    /\ \E j, k \in C10_Degraded :
          /\ endpointSummaries[j].degradationPoint
                < endpointSummaries[k].degradationPoint
          /\ report.bottleneck[1].degradationPoint
                = endpointSummaries[j].degradationPoint

\* C11: whenever a bottleneck exists the recommended ceiling is
\* floor(bottleneck.degradationPoint * 0.7); without any degradation point
\* there is no ceiling.
C11_CeilingIsSeventyPercent ==
    pc = "done" =>
        /\ C10_Degraded = {} => report.systemLimit = <<>>
        /\ report.bottleneck # <<>> =>
              /\ Len(report.systemLimit) = 1
              /\ report.systemLimit[1] * 10
                    <= report.bottleneck[1].degradationPoint * 7
              /\ report.bottleneck[1].degradationPoint * 7
                    < (report.systemLimit[1] + 1) * 10

\* A report whose bottleneck is 25, where 0.7 * 25 is no integer.
C11_Witness ==
    /\ pc = "done"
    /\ report.bottleneck # <<>>
    /\ report.bottleneck[1].degradationPoint = 25
    /\ report.systemLimit = <<17>>

C12_AllConnections ==
    UNION { { endpointSummaries[k].results[i].connections :
                i \in 1..Len(endpointSummaries[k].results) } :
            k \in 1..Len(endpointSummaries) }

\* C12: when no summary has a degradationPoint the report gives the maximum
\* connections over all samples of all endpoints, 0 when there is no sample.
C12_MaxTestedWhenNoBottleneck ==
    (pc = "done" /\ C10_Degraded = {}) =>
        /\ Len(report.maxTestedConnections) = 1
        /\ IF C12_AllConnections = {}
           THEN report.maxTestedConnections[1] = 0
           ELSE /\ report.maxTestedConnections[1] \in C12_AllConnections
                /\ \A c \in C12_AllConnections :
                      c <= report.maxTestedConnections[1]

\* A report without bottleneck over endpoints that stopped at different
\* levels, one of them without any sample.
C12_Witness ==
    /\ pc = "done"
    /\ C10_Degraded = {}
    /\ report.maxTestedConnections = <<25>>
    /\ \E k \in 1..Len(endpointSummaries) :
          LastConnections(endpointSummaries[k]) = 10
    /\ \E k \in 1..Len(endpointSummaries) :
          endpointSummaries[k].results = <<>>

\* C13: the error rate of every sample lies in [0,1], for every result with
\* errors >= 0 and requests.total >= 0.
C13_ErrorRateInUnitInterval ==
    \A r \in SampleSeqs : \A i \in 1..Len(r) :
        /\ 0 <= r[i].errorRate[1]
        /\ r[i].errorRate[1] <= r[i].errorRate[2]

\* The endpoint a summary belongs to.
EndpointOf(summary) ==
    CHOOSE e \in { endpointsToTest[i] : i \in 1..Len(endpointsToTest) } :
        e.name = summary.name

\* C14: an endpoint whose maxConnections is below the smallest base level
\* gets a summary without samples, with degradationPoint and
\* optimalConnections null; its walk goes straight to the summary and no
\* error is raised in it.
C14_EmptyLadderSummary ==
    /\ \A k \in 1..Len(endpointSummaries) :
          EndpointOf(endpointSummaries[k]).maxConnections < baseConnectionLevels[1]
              => /\ endpointSummaries[k].results = <<>>
                 /\ endpointSummaries[k].resultsCount = 0
                 /\ endpointSummaries[k].degradationPoint = Null
                 /\ endpointSummaries[k].optimalConnections = Null
    /\ (pc = "level" /\ endpointsToTest[epIdx].maxConnections < baseConnectionLevels[1])
          => /\ connectionLevels = <<>>
             /\ levelIdx > Len(connectionLevels)
    /\ err # <<>> =>
          endpointsToTest[err[1]].maxConnections >= baseConnectionLevels[1]

\* A finished run with a report whose queue held an endpoint without levels.
C14_Witness ==
    /\ pc = "done"
    /\ \E k \in 1..Len(endpointSummaries) :
          /\ EndpointOf(endpointSummaries[k]).maxConnections < baseConnectionLevels[1]
          /\ endpointSummaries[k].resultsCount = 0
    /\ Len(report.topPerformers) = 3

\* C15: at most one load burst is in flight; a burst is started only when
\* none is in flight, for levels and endpoints alike.
C15_OneBurstInFlight ==
    /\ [](inFlight \in {0, 1})
    /\ [](inFlight = 1 <=> pc = "awaiting")
    /\ [][inFlight' > inFlight => inFlight = 0]_vars

\* A burst in flight for a later endpoint, after earlier bursts were done.
C15_Witness ==
    /\ inFlight = 1
    /\ epIdx >= 2
    /\ Len(endpointResults) >= 1
    /\ Len(endpointSummaries[1].results) >= 1

\* C17: every endpoint walk starts with previousThroughput = 0,
\* degradationPoint = null, both flags false and no samples, so that the
\* first level of an endpoint is never skipped for what an earlier walk saw.
C17_FreshStatePerEndpoint ==
    /\ [][(pc = "endpoint" /\ pc' = "level") =>
            /\ previousThroughput' = 0
            /\ degradationPoint' = Null
            /\ ~errorRateThreshold' /\ ~latencyThreshold'
            /\ endpointResults' = <<>>]_vars
    /\ [](\A k \in 1..Len(endpointSummaries) :
            EndpointOf(endpointSummaries[k]).maxConnections >= baseConnectionLevels[1]
                => /\ endpointSummaries[k].results # <<>>
                   /\ endpointSummaries[k].results[1].connections
                         = baseConnectionLevels[1])

\* A walk under way with a first sample and no degradation, right after a
\* walk that ended in a hard stop.
C17_Witness ==
    /\ pc = "level"
    /\ epIdx >= 2
    /\ Len(endpointSummaries) = epIdx - 1
    /\ LET r == endpointSummaries[epIdx - 1].results
       IN  /\ r # <<>>
           /\ OverErrorLimit(r[Len(r)])
           /\ r[Len(r)].throughput > 0
    /\ Len(endpointResults) >= 1
    /\ degradationPoint = Null
    /\ ~errorRateThreshold /\ ~latencyThreshold

AuthSet == { authEndpointsToTest[i] : i \in 1..Len(authEndpointsToTest) }

\* The authenticated endpoints are the tail of the queue when a token was
\* obtained and are absent from it otherwise.
C18_QueueFollowsToken ==
    LET n == Len(endpointsToTest)
        a == Len(authEndpointsToTest)
    IN  IF authToken # "null"
        THEN /\ n > a
             /\ SubSeq(endpointsToTest, n - a + 1, n) = authEndpointsToTest
             /\ \A i \in 1..(n - a) : endpointsToTest[i] \notin AuthSet
        ELSE \A i \in 1..n : endpointsToTest[i] \notin AuthSet

\* C18: the token is obtained by one login before any walk and never written
\* afterwards; the authenticated endpoints join the queue, after all others,
\* exactly when the login succeeded; none is load-tested with a null token.
C18_TokenBeforeWalks ==
    /\ [][pc' # "login"]_vars
    /\ [][pc # "login" =>
            /\ authToken' = authToken
            /\ endpointsToTest' = endpointsToTest]_vars
    /\ [](pc = "login" => (authToken = "null" /\ endpointSummaries = <<>> /\ inFlight = 0))
    /\ [](pc # "login" => C18_QueueFollowsToken)
    /\ [](inFlight > 0 /\ endpointsToTest[epIdx] \in AuthSet => authToken # "null")

\* A burst in flight against an authenticated endpoint.
C18_Witness ==
    /\ inFlight = 1
    /\ endpointsToTest[epIdx] \in AuthSet
    /\ authToken = "token"

C19_Summaries == { endpointSummaries[k] : k \in 1..Len(endpointSummaries) }
C19_Top == { report.topPerformers[i] : i \in 1..Len(report.topPerformers) }

\* C19: the top performers are min(3, number of summaries) summaries in
\* descending order of maxThroughput, and no summary left out has a greater
\* maxThroughput than one of them.
C19_TopThreeByThroughput ==
    pc = "done" =>
        /\ Len(report.topPerformers)
              = (IF Len(endpointSummaries) < 3 THEN Len(endpointSummaries) ELSE 3)
        /\ C19_Top \subseteq C19_Summaries
        /\ Cardinality(C19_Top) = Len(report.topPerformers)
        /\ \A i, j \in 1..Len(report.topPerformers) :
              i < j => report.topPerformers[i].maxThroughput
                          >= report.topPerformers[j].maxThroughput
        /\ \A e \in C19_Summaries \ C19_Top : \A t \in C19_Top :
              e.maxThroughput <= t.maxThroughput

\* A report over five summaries, the list not constant and a summary with a
\* smaller maxThroughput left out.
C19_Witness ==
    /\ pc = "done"
    /\ Len(endpointSummaries) >= 5
    /\ report.topPerformers[1].maxThroughput > report.topPerformers[3].maxThroughput
    /\ \E e \in C19_Summaries \ C19_Top :
          /\ e.maxThroughput >= 0
          /\ e.maxThroughput < report.topPerformers[3].maxThroughput

C20_Count(text) ==
    Cardinality({ i \in 1..Len(report.recommendations) :
                    report.recommendations[i] = text })

C20_DegradedWith(marker) ==
    \E k \in C10_Degraded :
        \E i \in 1..Len(endpointSummaries[k].path) :
            endpointSummaries[k].path[i] = marker

C20_Once(marker, text) ==
    C20_Count(text) = (IF C20_DegradedWith(marker) THEN 1 ELSE 0)

\* C20: each category advisory appears once exactly when a degraded endpoint
\* has the marker in its path, the horizontal-scaling advisory exactly when
\* some endpoint degraded.
C20_AdvisoriesFollowDegradation ==
    pc = "done" =>
        /\ C20_Once("cpu-intensive", "vertical scaling")
        /\ C20_Once("memory-intensive", "increase memory")
        /\ C20_Once("db-intensive", "database optimizations")
        /\ C20_Once("weather", "caching")
        /\ C20_Count("horizontal scaling") = (IF C10_Degraded # {} THEN 1 ELSE 0)

\* A report where a cpu-intensive endpoint degraded and a memory-intensive
\* one did not.
C20_Witness ==
    /\ pc = "done"
    /\ C20_DegradedWith("cpu-intensive")
    /\ ~C20_DegradedWith("memory-intensive")
    /\ \E k \in 1..Len(endpointSummaries) :
          /\ endpointSummaries[k].path[2] = "memory-intensive"
          /\ endpointSummaries[k].degradationPoint = Null
    /\ C20_Count("vertical scaling") = 1
    /\ C20_Count("increase memory") = 0

C16_Ran(i) == \E k \in 1..Len(loads) : loads[k] = i

C16_Skipped(i) ==
    Len(suiteResults) >= i =>
        /\ suiteResults[i].skipped
        /\ suiteResults[i].reason \in {"validation_failed", "connection_error"}
        /\ ~suiteResults[i].result

C16_Processed ==
    /\ spc \in {"loop", "finished"} => Len(suiteResults) = testIdx - 1
    /\ spc = "finished" => Len(suiteResults) = Len(Suite)
    /\ spc = "exited" => validations = <<>>

\* C16 as stated: whenever a validation of a test fails, the load engine is
\* not started for it, its entry is a skip with a reason and no result, and
\* the remaining tests are processed.
C16_ValidationFailureSkips ==
    /\ \A k \in 1..Len(validations) :
          validations[k].outcome # "ok" =>
              /\ ~C16_Ran(validations[k].test)
              /\ C16_Skipped(validations[k].test)
    /\ C16_Processed

\* C16, amended: a failure of the validation made by runAllTests, or of the
\* one made by runTest when config.validation.skipOnFailure is set, skips the
\* load test and records a skip with a reason; a failure of runTest's
\* validation without skipOnFailure does not stop the load test, and its
\* entry carries the result. The remaining tests are processed either way.
C16_StrictValidationFailureSkips ==
    /\ \A k \in 1..Len(validations) :
          LET v == validations[k]
          IN  v.outcome # "ok" =>
                IF v.stage = "runAllTests" \/ config.skipOnFailure
                THEN /\ ~C16_Ran(v.test)
                     /\ C16_Skipped(v.test)
                ELSE /\ C16_Ran(v.test)
                     /\ Len(suiteResults) >= v.test =>
                           /\ ~suiteResults[v.test].skipped
                           /\ suiteResults[v.test].result
    /\ C16_Processed

\* A finished strict run where runAllTests' validation failed for one test,
\* runTest's for another, and a later test was load-tested.
C16_Witness ==
    /\ spc = "finished"
    /\ config.skipOnFailure
    /\ \E k, m \in 1..Len(validations) :
          /\ validations[k].outcome # "ok"
          /\ validations[k].stage = "runAllTests"
          /\ validations[m].outcome # "ok"
          /\ validations[m].stage = "runTest"
          /\ \E j \in 1..Len(Suite) :
                j > validations[k].test /\ j > validations[m].test /\ C16_Ran(j)

\* C21: as long as no load-engine invocation fails to signal done, a walk
\* makes at most one invocation per ladder level and the sweep reaches the
\* final analysis.
C21_SweepTerminates ==
    /\ [](InWalk =>
            /\ Len(endpointResults) + inFlight <= levelIdx
            /\ levelIdx <= Len(connectionLevels) + 1
            /\ (pc = "awaiting" => levelIdx <= Len(connectionLevels)))
    /\ [][InWalk /\ InWalk' => levelIdx' >= levelIdx]_vars
    /\ ([](pc # "rejected") => <>(pc = "done"))

\* The analysis reached after a sweep in which a level was skipped and a
\* level was run.
C21_Witness ==
    /\ pc = "done"
    /\ Len(endpointSummaries) >= 2
    /\ \E k \in 1..Len(endpointSummaries) :
          /\ endpointSummaries[k].results # <<>>
          /\ Len(endpointSummaries[k].results)
                < Len(FilterLevels(baseConnectionLevels,
                                   EndpointOf(endpointSummaries[k]).maxConnections))

C23_SkipDue ==
    /\ pc = "level"
    /\ levelIdx <= Len(connectionLevels)
    /\ Skips(degradationPoint, errorRateThreshold, latencyThreshold,
             connectionLevels[levelIdx])

\* C23: a level that is run records exactly one sample, at that level; a
\* level skipped by the skip-ahead rule or a hard-stop flag starts no burst,
\* appends no sample and leaves previousThroughput, degradationPoint and
\* both flags as they were.
C23_OneSamplePerExecutedLevel ==
    /\ [][C23_SkipDue =>
            /\ pc' = "level"
            /\ levelIdx' = levelIdx + 1
            /\ UNCHANGED <<endpointResults, previousThroughput, degradationPoint,
                           errorRateThreshold, latencyThreshold, inFlight>>]_vars
    /\ [][(pc = "awaiting" /\ pc' # "awaiting") =>
            /\ Len(endpointResults') = Len(endpointResults) + 1
            /\ SubSeq(endpointResults', 1, Len(endpointResults)) = endpointResults
            /\ endpointResults'[Len(endpointResults')].connections
                  = connectionLevels[levelIdx]
            /\ levelIdx' = levelIdx + 1]_vars
    /\ [][(InWalk /\ InWalk' /\ pc # "awaiting") =>
            endpointResults' = endpointResults]_vars
    /\ [](InWalk => \A i, j \in 1..Len(endpointResults) :
            i < j => endpointResults[i].connections < endpointResults[j].connections)

\* A walk in which a level was passed by the skip-ahead rule alone, after
\* samples with a positive throughput.
C23_Witness ==
    /\ pc = "level"
    /\ Len(endpointResults) >= 2
    /\ levelIdx > Len(endpointResults) + 1
    /\ degradationPoint # Null
    /\ ~errorRateThreshold /\ ~latencyThreshold
    /\ previousThroughput > 0

C24_Ladder == { baseConnectionLevels[i] : i \in 1..Len(baseConnectionLevels) }

C24_OnLadder(results, endpoint) ==
    \A i \in 1..Len(results) :
        /\ results[i].connections \in C24_Ladder
        /\ results[i].connections <= endpoint.maxConnections

\* C24: the connections of every sample are a level of the base ladder and
\* do not exceed the endpoint's maxConnections.
C24_SamplesOnLadder ==
    /\ InWalk => C24_OnLadder(endpointResults, endpointsToTest[epIdx])
    /\ \A k \in 1..Len(endpointSummaries) :
          C24_OnLadder(endpointSummaries[k].results,
                       EndpointOf(endpointSummaries[k]))

\* A walk sampled up to the endpoint's maxConnections, after the summary
\* of an earlier endpoint.
C24_Witness ==
    /\ InWalk
    /\ Len(endpointResults) >= 2
    /\ endpointResults[Len(endpointResults)].connections
          = endpointsToTest[epIdx].maxConnections
    /\ \E k \in 1..Len(endpointSummaries) : endpointSummaries[k].results # <<>>

\* C28: in a walk, a hard-stop flag implies a degradationPoint, and a
\* degradationPoint is the connections of a recorded sample, not above the
\* connections of the last one.
C28_FlagsImplyDegradationPoint ==
    InWalk =>
        /\ (errorRateThreshold \/ latencyThreshold) => degradationPoint # Null
        /\ degradationPoint # Null =>
              /\ \E i \in 1..Len(endpointResults) :
                    endpointResults[i].connections = degradationPoint
              /\ degradationPoint
                    <= endpointResults[Len(endpointResults)].connections

\* A hard stop at a level above the one where degradation was first seen.
C28_Witness ==
    /\ InWalk
    /\ errorRateThreshold
    /\ degradationPoint # Null
    /\ Len(endpointResults) >= 2
    /\ degradationPoint < endpointResults[Len(endpointResults)].connections

C29_RunOrder(summary) ==
    CHOOSE i \in 1..Len(endpointsToTest) : endpointsToTest[i].name = summary.name

\* C29: among the endpoints that share the minimum degradationPoint, the
\* bottleneck is the one walked last.
C29_LastOfTiesIsBottleneck ==
    pc = "done" =>
        \A k \in C10_Degraded :
            LET b == report.bottleneck[1]
                e == endpointSummaries[k]
            IN  /\ b.degradationPoint <= e.degradationPoint
                /\ b.degradationPoint = e.degradationPoint
                      => C29_RunOrder(e) <= C29_RunOrder(b)

\* A report where two endpoints share the minimum degradationPoint.
C29_Witness ==
    /\ pc = "done"
    /\ report.bottleneck # <<>>
    /\ \E k \in C10_Degraded :
          /\ endpointSummaries[k].name # report.bottleneck[1].name
          /\ endpointSummaries[k].degradationPoint
                = report.bottleneck[1].degradationPoint

C22_Token == TokenOf(served.header)

\* C22 as stated: a protected handler runs only for a token that verifies;
\* a request without a token is answered 401 and one whose token fails
\* verification 403, the handler not run.
C22_ProtectedNeedToken ==
    served.route \in Protected =>
        /\ served.handlerRan => (C22_Token # "" /\ Verifies(C22_Token))
        /\ C22_Token = "" => (served.status = 401 /\ ~served.handlerRan)
        /\ (C22_Token # "" /\ ~Verifies(C22_Token))
              => (served.status = 403 /\ ~served.handlerRan)

\* C22, amended: a protected handler runs only for a token that verifies;
\* a request that reaches authenticateToken without a token is answered 401
\* and one whose token fails verification 403. A request whose body does
\* not parse is answered 400 and one over the rate limit 429, with or
\* without a token, the handler not run.
C22_ProtectedNeedTokenPastLimiter ==
    served.route \in Protected =>
        /\ served.handlerRan => (C22_Token # "" /\ Verifies(C22_Token))
        /\ ~served.bodyParses => (served.status = 400 /\ ~served.handlerRan)
        /\ served.limited => (served.status = 429 /\ ~served.handlerRan)
        /\ (served.bodyParses /\ ~served.limited) =>
              /\ C22_Token = "" => (served.status = 401 /\ ~served.handlerRan)
              /\ (C22_Token # "" /\ ~Verifies(C22_Token))
                    => (served.status = 403 /\ ~served.handlerRan)
              /\ (C22_Token # "" /\ Verifies(C22_Token)) => served.handlerRan

\* A protected request with an expired token answered 403, after requests
\* that were served.
C22_Witness ==
    /\ served.route = "POST /api/checkout"
    /\ served.header = <<"Bearer", "expired">>
    /\ served.status = 403
    /\ ~served.handlerRan
    /\ hits >= 2

C25_Failed(k) == \A i \in 1..k : fetch.attempts[i] \in FetchErrors

\* C25: retryFetch called with retries = n makes at most n + 1 attempts; it
\* returns the response of the first attempt that succeeds and makes no
\* further attempt, and throws the error of the last attempt when all
\* n + 1 attempts failed.
C25_AtMostRetriesPlusOne ==
    fetch.status # "off" =>
        LET made == Len(fetch.attempts)
        IN  /\ made <= fetch.n + 1
            /\ fetch.status = "calling" =>
                  (C25_Failed(made) /\ fetch.retries = fetch.n - made)
            /\ fetch.status = "returned" =>
                  /\ C25_Failed(made - 1)
                  /\ fetch.attempts[made] \in FetchResponses
                  /\ fetch.result = fetch.attempts[made]
            /\ fetch.status = "threw" =>
                  /\ made = fetch.n + 1
                  /\ C25_Failed(made)
                  /\ fetch.result = fetch.attempts[made]

\* A call with the default retries that threw the error of its fourth
\* attempt, the first having failed otherwise.
C25_Witness ==
    /\ fetch.status = "threw"
    /\ fetch.n = connectionRetries
    /\ Len(fetch.attempts) = connectionRetries + 1
    /\ fetch.attempts[1] # fetch.result

\* C26: a call for a timeout error returns the stop signal exactly when the
\* timeouts counted since the start of the test have reached
\* maxTimeoutErrors; a call for another connection error never does; every
\* runTest that is not skipped for its condition starts with the counter
\* at 0.
C26_StopAtMaxTimeouts ==
    /\ []((spc = "load" /\ tracked.test = testIdx /\ tracked.kind \in Timeouts)
            => (tracked.signal <=> timeoutErrors >= maxTimeoutErrors))
    /\ [](tracked.kind = "ECONNRESET" => ~tracked.signal)
    /\ [][(spc = "runTest" /\ spc' = "load") => timeoutErrors' = 0]_vars
    /\ [][(spc = "load" /\ spc' = "load") =>
            /\ timeoutErrors' \in {timeoutErrors, timeoutErrors + 1}
            /\ timeoutErrors' # timeoutErrors => tracked'.kind \in Timeouts
            /\ (tracked'.kind \in Timeouts /\ tracked' # tracked)
                  => timeoutErrors' = timeoutErrors + 1]_vars

\* A load that starts at 0 after a test whose last call returned the stop
\* signal for its timeouts.
C26_Witness ==
    /\ spc = "load"
    /\ testIdx >= 2
    /\ timeoutErrors = 0
    /\ tracked.test = testIdx - 1
    /\ tracked.kind \in Timeouts
    /\ tracked.signal

\* C30: every test contributes exactly one entry to results, in test order,
\* and a run that takes no further step has an entry for every test.
C30_OneEntryPerTest ==
    /\ Len(suiteResults) <= Len(Suite)
    /\ \A i \in 1..Len(suiteResults) : suiteResults[i].name = Suite[i].name
    /\ spc \in {"finished", "hung"} => Len(suiteResults) = Len(Suite)

C27_ConnectionFailure(result) == result.code \in {"ECONNREFUSED", "ETIMEDOUT"}

\* C27: the endpoints are tested in list order; after a check that failed
\* with a connection-refused or connection-timed-out error no further
\* endpoint is tested, and the results are those of the endpoints tested
\* up to and including it.
C27_StopsAtConnectionFailure ==
    cpc # "off" =>
        /\ Len(checkResults) <= Len(ENDPOINTS)
        /\ \A i \in 1..Len(checkResults) : checkResults[i].endpoint = ENDPOINTS[i]
        /\ \A i \in 1..(Len(checkResults) - 1) :
              ~C27_ConnectionFailure(checkResults[i])
        /\ (checkResults # <<>> /\ C27_ConnectionFailure(checkResults[Len(checkResults)]))
              => (cpc \in {"stopped", "returned"} /\ checkIdx = Len(checkResults))
        /\ cpc = "checking" => Len(checkResults) = checkIdx - 1
        /\ cpc = "returned" =>
              \/ Len(checkResults) = Len(ENDPOINTS)
              \/ Stops(checkResults[Len(checkResults)])

\* A check that returned after the third endpoint timed out, the first
\* having succeeded and the second failed by axios' own timeout.
C27_Witness ==
    /\ cpc = "returned"
    /\ Len(checkResults) = 3
    /\ checkResults[1].success
    /\ checkResults[2].code = "ECONNABORTED"
    /\ checkResults[3].code = "ETIMEDOUT"

====
